---- MODULE Spec2Model ----
(***************************************************************************)
(* Model of the vector-store HTTP service (src/main.py, src/models.py,     *)
(* src/embedding_service.py, src/config.py).                               *)
(*                                                                         *)
(* The database is PostgreSQL with the vector extension; every statement   *)
(* the handlers send runs in its own implicit transaction, so one          *)
(* statement is one atomic step and the awaits between statements are the  *)
(* points where other requests interleave.                                 *)
(*                                                                         *)
(* Text is modelled as TLA+ strings, request content as a sequence of      *)
(* Unicode code points, a JSON value as [type, lit] (its JSON type and its *)
(* literal text), SQL NULL / a text value as the empty / a singleton set.  *)
(***************************************************************************)
EXTENDS Integers, Sequences, FiniteSets, Bags, TLC

(* ---------------------------------------------------------------- bounds *)
\* Most stores ever created.
MaxStores == 2
\* Most embedding rows ever stored (over all stores).
MaxRecords == 2

(* ------------------------------------------------------ program constants *)
\* config.py: EmbeddingConfig.dimensions (1536 in the source; the model
\* scales the configured dimensionality down, the comparison is unchanged).
Dimensions == 2
\* main.py: "Cap at 100 results" (min(..., 100)) in search and list.
MaxLimit == 100
\* main.py / models.py: default limit (limit or 20).
DefaultLimit == 20

(* ------------------------------------------------------------ small sets *)
\* gen_random_uuid(): any identifier not in use.  Identifiers compare as the
\* id column does (id > $1, id < $1).
IdSpace == {1, 2, 3}
\* "no value" for an optional identifier (after / before / last_id).
NoId == 0
\* Optional[int]: None is the empty set, the integer n is {n}.
None == {}
Some(n) == {n}
Value(opt) == CHOOSE n \in opt : TRUE

\* Python "x or d" on an Optional[int]: d when x is None or 0.
PyOr(opt, d) == IF opt = None \/ Value(opt) = 0 THEN d ELSE Value(opt)

\* The requests served concurrently.
Workers == {1, 2}

Min(a, b) == IF a <= b THEN a ELSE b
Max(a, b) == IF a >= b THEN a ELSE b

RECURSIVE SumSeq(_)
SumSeq(s) == IF s = <<>> THEN 0 ELSE Head(s) + SumSeq(Tail(s))

\* Bytes of one code point in UTF-8.
Utf8Len(cp) == IF cp < 128 THEN 1 ELSE IF cp < 2048 THEN 2 ELSE IF cp < 65536 THEN 3 ELSE 4

\* Byte length of a text (the sum over its code points).
ByteLength(content) == SumSeq([i \in 1..Len(content) |-> Utf8Len(content[i])])

\* Python len(str) and PostgreSQL LENGTH(text): the number of characters.
CharLength(content) == Len(content)

\* JSON values of a metadata map / a filter map.
JStr(s) == [type |-> "string", lit |-> s]
JNum(s) == [type |-> "number", lit |-> s]
JBool(b) == [type |-> "boolean", lit |-> IF b THEN "true" ELSE "false"]

\* Request contents: "hi" (2 characters, 2 bytes), "e-acute" (1 character, 2 bytes).
ContentHi == <<104, 105>>
ContentE == <<233>>

\* Embedding vectors of the configured dimensionality (unit axis vectors).
VecX == <<1, 0>>
VecY == <<0, 1>>
VecNegX == <<-1, 0>>
\* A vector of another dimensionality, as a provider may return.
VecShort == <<1>>

\* Metadata maps (string-keyed JSON objects); EmptyMap is {}.
EmptyMap == [k \in {} |-> JStr("")]
MetaText == [k \in {"k", "t"} |-> IF k = "k" THEN JStr("1") ELSE JStr("True")]
MetaTyped == [k \in {"k", "t"} |-> IF k = "k" THEN JNum("1") ELSE JBool(TRUE)]

\* EmbeddingCreateRequest bodies (models.py:48-51) the clients send.
ItemA == [content |-> ContentHi, embedding |-> VecX, metadata |-> MetaText]
ItemB == [content |-> ContentE, embedding |-> VecY, metadata |-> MetaTyped]
ItemC == [content |-> ContentHi, embedding |-> VecNegX, metadata |-> EmptyMap]
ItemD == [content |-> ContentE, embedding |-> VecShort, metadata |-> EmptyMap]
Items == {ItemA, ItemB, ItemC, ItemD}

\* EmbeddingBatchCreateRequest.embeddings (models.py:63-64): the lists the
\* clients send, the empty list among them.
Batches == { <<>>, <<ItemA, ItemB>>, <<ItemC, ItemC, ItemB>> }

(* ----------------------------------------------------------------- state *)
VARIABLES
    vector_stores,  \* table vector_stores: rows in creation order
    embeddings,     \* table embeddings: a bag of rows
    now,            \* NOW(): the database clock
    w,              \* per worker: the insert request it serves and its position
    ingested,       \* per store id: what the completed insert requests contribute
    search,         \* the last search_vector_store request and its outcome
    list,           \* the last list_vector_stores request and its outcome
    walk            \* a client following the list cursor page by page

vars == <<vector_stores, embeddings, now, w, ingested, search, list, walk>>

ZeroCounts == [in_progress |-> 0, completed |-> 0, failed |-> 0, cancelled |-> 0, total |-> 0]

NoRequest == [kind |-> "none", id |-> NoId, embeddings |-> <<>>]
IdleWorker == [pc |-> "idle", req |-> NoRequest, status |-> 0]
NoSearch ==
    [status |-> 0, id |-> NoId, limit |-> None, filters |-> <<>>, found |-> FALSE,
     embed_calls |-> 0, query_embedding |-> <<>>, queries |-> 0, query_ok |-> FALSE,
     results |-> <<>>, distances |-> <<>>, data |-> <<>>]
NoList ==
    [status |-> 0, limit |-> None, after |-> NoId, before |-> NoId,
     data |-> <<>>, has_more |-> FALSE, first_id |-> NoId, last_id |-> NoId]
NoWalk == [state |-> "none", limit |-> 1, after |-> NoId, seen |-> <<>>, stores |-> 0]

Init ==
    /\ vector_stores = <<>>
    /\ embeddings = EmptyBag
    /\ now = 0
    /\ w = [p \in Workers |-> IdleWorker]
    /\ ingested = [i \in IdSpace |-> [count |-> 0, length |-> 0]]
    /\ search = NoSearch
    /\ list = NoList
    /\ walk = NoWalk

(* ------------------------------------------------------- store lifecycle *)
StoreIds(stores) == { stores[i].id : i \in DOMAIN stores }

\* SELECT id FROM vector_stores WHERE id = $1
SelectStore(stores, id) == { i \in DOMAIN stores : stores[i].id = id }

\* POST /v1/vector_stores: one INSERT ... RETURNING, then the response.
create_vector_store ==
    /\ Len(vector_stores) < MaxStores
    /\ \E id \in IdSpace \ StoreIds(vector_stores) :
          vector_stores' = Append(vector_stores,
              [id |-> id, file_counts |-> ZeroCounts, status |-> "completed",
               usage_bytes |-> 0, last_active_at |-> 0, created_at |-> now + 1])
    /\ now' = now + 1
    /\ UNCHANGED <<embeddings, w, ingested, search, list, walk>>

(* -------------------------------------------------------------- ingestion *)
\* The columns the statistics UPDATE assigns, in the order of its SET list.
SetTargets == <<"file_counts", "file_counts", "usage_bytes", "last_active_at">>

\* PostgreSQL rejects an UPDATE whose SET list assigns one column twice
\* ("multiple assignments to same column"); nothing is written.
MultipleAssignments(targets) ==
    \E i, j \in DOMAIN targets : i # j /\ targets[i] = targets[j]

\* Faulty variant of RecordIngest: a statement that executes and has no
\* "WHERE id = $1", so that every store's counters grow.
RecordIngestEveryStore(stores, id, count, length, t) ==
    [ok |-> TRUE,
     rows |-> [i \in DOMAIN stores |->
         [stores[i] EXCEPT
            !.file_counts = [@ EXCEPT !.completed = @ + count, !.total = @ + count],
            !.usage_bytes = @ + length,
            !.last_active_at = t]]]

\* The statistics UPDATE of an insert: count rows and length characters more
\* for store id at time t.  [ok, rows]: whether the statement executed, and
\* the table after it.
RecordIngest(stores, id, count, length, t) ==
    IF MultipleAssignments(SetTargets)
    THEN [ok |-> FALSE, rows |-> stores]
    ELSE [ok |-> TRUE,
          rows |-> [i \in DOMAIN stores |->
              IF stores[i].id = id
              THEN [stores[i] EXCEPT
                      !.file_counts = [@ EXCEPT !.completed = @ + count, !.total = @ + count],
                      !.usage_bytes = @ + length,
                      !.last_active_at = t]
              ELSE stores[i]]]

\* str(x) of a vector component (a Python float) and the number the
\* database reads back from that text.
FloatStr(x) == CASE x = -1 -> "-1.0" [] x = 0 -> "0.0" [] x = 1 -> "1.0"
ParseFloat(t) == CASE t = "-1.0" -> -1 [] t = "0.0" -> 0 [] t = "1.0" -> 1

\* "[" + ",".join(map(str, embedding)) + "]": the vector literal, as the list
\* of its component texts; and the $n::vector cast that reads it.
VectorStr(embedding) == [i \in 1..Len(embedding) |-> FloatStr(embedding[i])]
VectorCast(literal) == [i \in 1..Len(literal) |-> ParseFloat(literal[i])]

\* The rows an INSERT of these request items stores for store id
\* ("request.metadata or {}": an absent map is stored as {}).
RECURSIVE NewRows(_, _)
NewRows(id, items) ==
    IF items = <<>> THEN EmptyBag
    ELSE SetToBag({[vector_store_id |-> id, content |-> Head(items).content,
                    embedding |-> VectorCast(VectorStr(Head(items).embedding)),
                    metadata |-> Head(items).metadata]})
         (+) NewRows(id, Tail(items))

\* Rows the requests in flight will still insert.
Pending ==
    SumSeq([p \in Workers |->
        IF w[p].pc \in {"check", "insert"} THEN Len(w[p].req.embeddings) ELSE 0])

\* Faulty variant of BatchValidation: the empty-list check is missing.
BatchValidationSkipped(items) == 0

\* create_embeddings_batch: "if not request.embeddings" -> 400; 0 is "valid".
BatchValidation(items) == IF items = <<>> THEN 400 ELSE 0

\* A request arrives at an idle worker.
Accept(p, req) ==
    /\ w[p].pc = "idle"
    /\ BagCardinality(embeddings) + Pending + Len(req.embeddings) <= MaxRecords
    /\ w' = [w EXCEPT ![p] = [pc |-> "check", req |-> req, status |-> 0]]
    /\ UNCHANGED <<vector_stores, embeddings, now, ingested, search, list, walk>>

\* The handler's existence check (and, for a batch, the empty-list check that
\* follows it without an await): 404, 400, or on to the INSERT.
CheckStore(p, invalid) ==
    /\ w[p].pc = "check"
    /\ w' = [w EXCEPT ![p] =
          IF SelectStore(vector_stores, w[p].req.id) = {}
          THEN [pc |-> "idle", req |-> NoRequest, status |-> 404]
          ELSE IF invalid # 0
          THEN [pc |-> "idle", req |-> NoRequest, status |-> invalid]
          ELSE [@ EXCEPT !.pc = "insert"]]
    /\ UNCHANGED <<vector_stores, embeddings, now, ingested, search, list, walk>>

\* The embedding column of the embeddings table is created outside these
\* sources; it takes client-supplied vectors of any dimensionality (a
\* vector has at least one component).
VectorColumnAccepts(embedding) == Len(embedding) >= 1

\* The INSERT ... VALUES ... RETURNING statement.  An empty VALUES list is a
\* syntax error, and a value the column does not take an error too: the
\* statement fails and the generic clause answers 500.  The handler compares
\* no vector's length with config.dimensions before the statement.
InsertRows(p) ==
    /\ w[p].pc = "insert"
    /\ IF \/ w[p].req.embeddings = <<>>
          \/ \E i \in DOMAIN w[p].req.embeddings :
                ~VectorColumnAccepts(w[p].req.embeddings[i].embedding)
       THEN /\ w' = [w EXCEPT ![p] = [pc |-> "idle", req |-> NoRequest, status |-> 500]]
            /\ UNCHANGED embeddings
       ELSE /\ embeddings' = embeddings (+) NewRows(w[p].req.id, w[p].req.embeddings)
            /\ w' = [w EXCEPT ![p].pc = "update"]
    /\ UNCHANGED <<vector_stores, now, ingested, search, list, walk>>

\* The statistics UPDATE, then the response: 200, or 500 from the generic
\* exception clause when the statement fails.
UpdateStatistics(p, count, length) ==
    /\ w[p].pc = "update"
    /\ LET out == RecordIngest(vector_stores, w[p].req.id, count, length, now)
       IN /\ vector_stores' = out.rows
          /\ w' = [w EXCEPT ![p] = [pc |-> "idle", req |-> NoRequest,
                                    status |-> IF out.ok THEN 200 ELSE 500]]
    /\ ingested' = [ingested EXCEPT ![w[p].req.id] =
          [count |-> @.count + count, length |-> @.length + length]]
    /\ UNCHANGED <<embeddings, now, search, list, walk>>

\* POST /v1/vector_stores/{id}/embeddings
create_embedding_request(p) ==
    \E id \in IdSpace, item \in Items :
        Accept(p, [kind |-> "single", id |-> id, embeddings |-> <<item>>])

create_embedding_check(p) ==
    /\ w[p].req.kind = "single"
    /\ CheckStore(p, 0)

create_embedding_insert(p) ==
    /\ w[p].req.kind = "single"
    /\ InsertRows(p)

\* ... usage_bytes = COALESCE(usage_bytes, 0) + LENGTH($2), counts + 1
create_embedding_update(p) ==
    /\ w[p].req.kind = "single"
    /\ UpdateStatistics(p, 1, CharLength(w[p].req.embeddings[1].content))

\* POST /v1/vector_stores/{id}/embeddings/batch
create_embeddings_batch_request(p) ==
    \E id \in IdSpace, items \in Batches :
        Accept(p, [kind |-> "batch", id |-> id, embeddings |-> items])

create_embeddings_batch_check(p) ==
    /\ w[p].req.kind = "batch"
    /\ CheckStore(p, BatchValidation(w[p].req.embeddings))

create_embeddings_batch_insert(p) ==
    /\ w[p].req.kind = "batch"
    /\ InsertRows(p)

\* total_content_length = sum(len(emb.content) ...), counts + len(embeddings)
create_embeddings_batch_update(p) ==
    /\ w[p].req.kind = "batch"
    /\ UpdateStatistics(p, Len(w[p].req.embeddings),
          SumSeq([i \in 1..Len(w[p].req.embeddings) |-> CharLength(w[p].req.embeddings[i].content)]))

\* A statement of an insert handler (the existence SELECT, the INSERT or the
\* UPDATE) raises, for a lost connection or a database error: the statement
\* writes nothing, what earlier statements wrote stays (each is its own
\* transaction), and the generic clause answers 500.  The handler neither
\* retries nor undoes.
statement_fails(p) ==
    /\ w[p].pc \in {"check", "insert", "update"}
    /\ w' = [w EXCEPT ![p] = [pc |-> "idle", req |-> NoRequest, status |-> 500]]
    /\ ingested' =
          IF w[p].pc = "update"
          THEN [ingested EXCEPT ![w[p].req.id] =
                  [count |-> @.count + Len(w[p].req.embeddings),
                   length |-> @.length + SumSeq([i \in 1..Len(w[p].req.embeddings) |->
                                   CharLength(w[p].req.embeddings[i].content)])]]
          ELSE ingested
    /\ UNCHANGED <<vector_stores, embeddings, now, search, list, walk>>

Ingest ==
    \/ \E p \in Workers : create_embedding_request(p)
    \/ \E p \in Workers : create_embedding_check(p)
    \/ \E p \in Workers : create_embedding_insert(p)
    \/ \E p \in Workers : create_embedding_update(p)
    \/ \E p \in Workers : create_embeddings_batch_request(p)
    \/ \E p \in Workers : create_embeddings_batch_check(p)
    \/ \E p \in Workers : create_embeddings_batch_insert(p)
    \/ \E p \in Workers : create_embeddings_batch_update(p)

(* ----------------------------------------------------------------- search *)
\* The embedding provider's answers to litellm.aembedding: a failure, or a
\* vector (of the configured dimensionality or not).
ProviderFailure == [ok |-> FALSE, embedding |-> <<>>]
Provided(v) == [ok |-> TRUE, embedding |-> v]

\* Filter maps (Dict[str, Any], in insertion order): key and JSON value.
Filter(k, v) == [key |-> k, value |-> v]
FilterMaps ==
    { <<Filter("k", JNum("1"))>>,
      <<Filter("k", JStr("1"))>>,
      <<Filter("t", JBool(TRUE))>>,
      <<Filter("k", JNum("1")), Filter("t", JBool(TRUE))>>,
      <<Filter("t", JStr("true")), Filter("k", JStr("1"))>> }

\* VectorStoreSearchRequest bodies (models.py:28-32) with the provider's
\* answer to each: every limit, every filter map, every provider answer.
SearchRequests ==
    { [limit |-> l, filters |-> <<>>, provider |-> Provided(VecX)] :
        l \in {None, Some(0), Some(-1), Some(1), Some(5), Some(101)} }
    \cup { [limit |-> Some(5), filters |-> f, provider |-> Provided(VecX)] : f \in FilterMaps }
    \cup { [limit |-> None, filters |-> <<>>, provider |-> a] :
        a \in {ProviderFailure, Provided(VecShort), Provided(VecY)} }

\* EmbeddingService.generate_embedding: the provider's vector, or an error
\* when the call fails or the vector has another length than configured.
generate_embedding(answer) ==
    IF answer.ok /\ Len(answer.embedding) = Dimensions
    THEN [ok |-> TRUE, embedding |-> answer.embedding]
    ELSE [ok |-> FALSE, embedding |-> <<>>]

\* str(value) of a filter value: Python writes booleans True / False.
PyStr(v) ==
    IF v.type = "boolean" THEN (IF v.lit = "true" THEN "True" ELSE "False") ELSE v.lit

\* metadata ->> key: the value at key as text, NULL ({}) when the key is absent.
JsonGetText(map, key) == IF key \in DOMAIN map THEN {map[key].lit} ELSE {}

\* SQL "=" in a WHERE clause: not satisfied when either side is NULL.
SqlEq(a, b) == a # {} /\ b # {} /\ a = b

\* Faulty variant of NextParam: the counter is not advanced after a filter.
NextParamStuck(param_count) == param_count

\* "param_count += 2" after each filter.
NextParam(param_count) == param_count + 2

\* One condition "metadata->>$n = $n+1" per filter: the placeholders of its
\* key and of its value.
RECURSIVE FilterConditions(_, _)
FilterConditions(filters, param_count) ==
    IF filters = <<>> THEN <<>>
    ELSE <<[key |-> param_count, value |-> param_count + 1]>>
         \o FilterConditions(Tail(filters), NextParam(param_count))

\* query_params.extend([key, str(value)]) per filter.
RECURSIVE FilterParams(_)
FilterParams(filters) ==
    IF filters = <<>> THEN <<>>
    ELSE <<Head(filters).key, PyStr(Head(filters).value)>> \o FilterParams(Tail(filters))

\* The similarity query: the placeholders of the query vector ($1) and of the
\* store id ($2), the filter conditions ($3 on), the LIMIT and the parameters.
BuildQuery(query_vector_str, vector_store_id, filters, limit) ==
    [vector |-> 1, store |-> 2,
     conditions |-> FilterConditions(filters, 3),
     limit |-> limit,
     params |-> <<query_vector_str, vector_store_id>> \o FilterParams(filters)]

\* The WHERE clause on one row.
Where(row, q) ==
    /\ row.vector_store_id = q.params[q.store]
    /\ \A i \in DOMAIN q.conditions :
          SqlEq(JsonGetText(row.metadata, q.params[q.conditions[i].key]),
                {q.params[q.conditions[i].value]})

Dot(u, v) == SumSeq([i \in 1..Len(u) |-> u[i] * v[i]])

\* embedding <=> $1::vector, the cosine distance 1 - cos(u, v) (0..2); the
\* vectors of this model have norm 1.
CosineDistance(u, v) == 1 - Dot(u, v)

Distance(row, q) == CosineDistance(row.embedding, VectorCast(q.params[q.vector]))

Matching(rows, q) == { r \in BagToSet(rows) : Where(r, q) }

RECURSIVE Copies(_, _)
Copies(S, bag) ==
    IF S = {} THEN 0
    ELSE LET r == CHOOSE x \in S : TRUE IN CopiesIn(r, bag) + Copies(S \ {r}, bag)

Occurrences(s, r) == Cardinality({ i \in DOMAIN s : s[i] = r })

\* ORDER BY distance ASC LIMIT n: the first n rows of any order of the
\* matching rows that ascends in distance (rows at equal distance come in
\* any order).
Ordered(rows, q) ==
    LET M == Matching(rows, q)
        n == Min(q.limit, Copies(M, rows))
    IN { s \in [1..n -> M] :
           /\ \A r \in M : Occurrences(s, r) <= CopiesIn(r, rows)
           /\ \A i, j \in 1..n : i < j => Distance(s[i], q) <= Distance(s[j], q)
           /\ \A r \in M : Occurrences(s, r) < CopiesIn(r, rows)
                 => \A i \in 1..n : Distance(s[i], q) <= Distance(r, q) }

\* The statement fails when LIMIT is negative, or when a selected row's
\* vector has another dimensionality than the query vector.
QueryFails(rows, q) ==
    \/ q.limit < 0
    \/ \E r \in Matching(rows, q) : Len(r.embedding) # Len(q.params[q.vector])

\* The names models.py defines, and the fields of its response models.
ModelsDefined ==
    {"VectorStoreCreateRequest", "VectorStoreResponse", "VectorStoreSearchRequest",
     "SearchResult", "VectorStoreSearchResponse", "EmbeddingCreateRequest",
     "EmbeddingResponse", "EmbeddingBatchCreateRequest", "EmbeddingBatchCreateResponse",
     "VectorStoreListResponse"}
SearchResultRequired == {"id", "content", "score"}
VectorStoreSearchResponseRequired == {"data", "usage"}

\* The keyword arguments the handler builds the two models from.
SearchResultArguments == {"file_id", "filename", "score", "attributes", "content"}
VectorStoreSearchResponseArguments == {"search_query", "data", "has_more", "next_page"}

\* pydantic builds a model only when every required field is given.
Validates(required, given) == required \subseteq given

\* Lines 285-312: one SearchResult per row, then the response model; any
\* exception on the way is answered 500 by the generic clause.
BuildSearchResponse(results) ==
    IF /\ results # <<>>
       /\ \/ "ContentChunk" \notin ModelsDefined
          \/ ~Validates(SearchResultRequired, SearchResultArguments)
    THEN [status |-> 500, data |-> <<>>]
    ELSE IF ~Validates(VectorStoreSearchResponseRequired, VectorStoreSearchResponseArguments)
    THEN [status |-> 500, data |-> <<>>]
    ELSE [status |-> 200, data |-> results]

\* Faulty variant of SimilarityScore: the normalised distance itself, without
\* the "1 -".
SimilarityScoreIsDistance(distance) == Max(0, distance)

\* Faulty variant of SimilarityScore: 1 - distance, neither normalised by 2
\* nor clamped at 0.
SimilarityScoreUnnormalised(distance) == 2 - 2 * distance

\* similarity_score = max(0, 1 - (row['distance'] / 2)), counted in halves:
\* the result is twice the score, so that 2 stands for 1.0 and 1 for 0.5.
SimilarityScore(distance) == Max(0, 2 - distance)

\* Faulty variant of Reraise: no "except HTTPException" clause, so the
\* generic clause answers.
RaiseGeneric(status) == 500

\* What "except HTTPException: raise" answers for an HTTPException raised in
\* the handler's try block: its own status.
Reraise(status) == status

\* POST /v1/vector_stores/{id}/search, the whole handler.
SearchOutcome(id, req, results) ==
    LET found == SelectStore(vector_stores, id) # {}
        emb == generate_embedding(req.provider)
        limit == Min(PyOr(req.limit, DefaultLimit), MaxLimit)
        q == BuildQuery(VectorStr(emb.embedding), id, req.filters, limit)
        base == [NoSearch EXCEPT !.id = id, !.limit = req.limit, !.filters = req.filters,
                                 !.found = found]
    IN IF ~found THEN [base EXCEPT !.status = Reraise(404)]
       ELSE IF ~emb.ok THEN [base EXCEPT !.status = 500, !.embed_calls = 1]
       ELSE IF QueryFails(embeddings, q)
       THEN [base EXCEPT !.status = 500, !.embed_calls = 1,
                         !.query_embedding = emb.embedding, !.queries = 1]
       ELSE LET out == BuildSearchResponse(results)
            IN [base EXCEPT !.status = out.status, !.embed_calls = 1,
                            !.query_embedding = emb.embedding, !.queries = 1,
                            !.query_ok = TRUE, !.results = results,
                            !.distances = [i \in DOMAIN results |-> Distance(results[i], q)],
                            !.data = out.data]

\* The rows the similarity query may return for this request.
SearchRows(id, req) ==
    LET emb == generate_embedding(req.provider)
        limit == Min(PyOr(req.limit, DefaultLimit), MaxLimit)
        q == BuildQuery(VectorStr(emb.embedding), id, req.filters, limit)
    IN IF SelectStore(vector_stores, id) # {} /\ emb.ok /\ ~QueryFails(embeddings, q)
       THEN Ordered(embeddings, q)
       ELSE {<<>>}

search_vector_store ==
    /\ \E id \in IdSpace, req \in SearchRequests :
          \E results \in SearchRows(id, req) :
              search' = SearchOutcome(id, req, results)
    /\ UNCHANGED <<vector_stores, embeddings, now, w, ingested, list, walk>>

\* The response leaves the handler.
search_return ==
    /\ search.status # 0
    /\ search' = NoSearch
    /\ UNCHANGED <<vector_stores, embeddings, now, w, ingested, list, walk>>

(* ------------------------------------------------------------------- list *)
\* The WHERE clause of the list query: "id > $n" when after is given (truthy),
\* "id < $n" when before is given.
ListWhere(row, after, before) ==
    /\ after # NoId => row.id > after
    /\ before # NoId => row.id < before

ListMatching(stores, after, before) ==
    { stores[i] : i \in { j \in DOMAIN stores : ListWhere(stores[j], after, before) } }

\* ORDER BY created_at DESC.
RECURSIVE OrderDesc(_)
OrderDesc(S) ==
    IF S = {} THEN <<>>
    ELSE LET m == CHOOSE x \in S : \A y \in S : y.created_at <= x.created_at
         IN <<m>> \o OrderDesc(S \ {m})

\* LIMIT n (n >= 0) of an ordered result.
Limit(rows, n) == SubSeq(rows, 1, Min(n, Len(rows)))

\* Python results[:n]: the first n elements, all but the last -n for n < 0.
SliceTo(rows, n) ==
    IF n >= 0 THEN SubSeq(rows, 1, Min(n, Len(rows)))
    ELSE SubSeq(rows, 1, Max(0, Len(rows) + n))

\* GET /v1/vector_stores, the whole handler: the effective limit, the query
\* with LIMIT limit + 1 (an error when that is negative, answered 500 by the
\* generic clause), has_more, the page and its first and last id.
ListOutcome(stores, limit_arg, after, before) ==
    LET limit == Min(PyOr(limit_arg, DefaultLimit), MaxLimit)
        base == [NoList EXCEPT !.limit = limit_arg, !.after = after, !.before = before]
    IN IF limit + 1 < 0 THEN [base EXCEPT !.status = 500]
       ELSE LET results == Limit(OrderDesc(ListMatching(stores, after, before)), limit + 1)
                has_more == Len(results) > limit
                page == IF has_more THEN SliceTo(results, limit) ELSE results
                ids == [i \in 1..Len(page) |-> page[i].id]
            IN [base EXCEPT !.status = 200, !.data = ids, !.has_more = has_more,
                            !.first_id = IF ids = <<>> THEN NoId ELSE ids[1],
                            !.last_id = IF ids = <<>> THEN NoId ELSE ids[Len(ids)]]

\* The limit query parameters the clients send.
ListLimits == {None, Some(0), Some(-1), Some(-2), Some(1), Some(2), Some(101)}

list_vector_stores ==
    /\ \E limit \in ListLimits, after \in IdSpace \cup {NoId}, before \in IdSpace \cup {NoId} :
          list' = ListOutcome(vector_stores, limit, after, before)
    /\ UNCHANGED <<vector_stores, embeddings, now, w, ingested, search, walk>>

\* The response leaves the handler.
list_return ==
    /\ list.status # 0
    /\ list' = NoList
    /\ UNCHANGED <<vector_stores, embeddings, now, w, ingested, search, walk>>

\* A client that reads the whole list page by page: a first request without
\* a cursor, then requests with after = the last page's last_id while the
\* last page said has_more.
WalkStep(limit, after, seen, stores) ==
    LET out == ListOutcome(vector_stores, Some(limit), after, NoId)
    IN /\ walk' = [state |-> IF out.has_more THEN "more" ELSE "done",
                   limit |-> limit, after |-> out.last_id,
                   seen |-> seen \o out.data, stores |-> stores]
       /\ UNCHANGED <<vector_stores, embeddings, now, w, ingested, search, list>>

walk_first ==
    /\ walk.state = "none"
    /\ \E limit \in {1, 2} : WalkStep(limit, NoId, <<>>, Len(vector_stores))

walk_next ==
    /\ walk.state = "more"
    /\ WalkStep(walk.limit, walk.after, walk.seen, walk.stores)

walk_end ==
    /\ walk.state = "done"
    /\ walk' = NoWalk
    /\ UNCHANGED <<vector_stores, embeddings, now, w, ingested, search, list>>

Next ==
    \/ create_vector_store
    \/ Ingest

Spec == Init /\ [][Next]_vars

\* The same routes against a database whose statements may fail.
NextFaulty ==
    \/ Next
    \/ \E p \in Workers : statement_fails(p)

SpecFaulty == Init /\ [][NextFaulty]_vars

\* One client that sends its insert requests one after the other.
NextSequential ==
    \/ create_vector_store
    \/ create_embedding_request(1)
    \/ create_embedding_check(1)
    \/ create_embedding_insert(1)
    \/ create_embedding_update(1)
    \/ create_embeddings_batch_request(1)
    \/ create_embeddings_batch_check(1)
    \/ create_embeddings_batch_insert(1)
    \/ create_embeddings_batch_update(1)

SpecSequential == Init /\ [][NextSequential]_vars

\* Searches against a database that one client fills request by request; a
\* search is answered before the next request is taken.
NextSearch ==
    \/ search.status = 0 /\ create_vector_store
    \/ search.status = 0 /\ create_embedding_request(1)
    \/ search.status = 0 /\ create_embedding_check(1)
    \/ search.status = 0 /\ create_embedding_insert(1)
    \/ search.status = 0 /\ create_embedding_update(1)
    \/ search.status = 0 /\ create_embeddings_batch_request(1)
    \/ search.status = 0 /\ create_embeddings_batch_check(1)
    \/ search.status = 0 /\ create_embeddings_batch_insert(1)
    \/ search.status = 0 /\ create_embeddings_batch_update(1)
    \/ search.status = 0 /\ search_vector_store
    \/ search_return

SpecSearch == Init /\ [][NextSearch]_vars

\* Clients that list the stores while stores are created; a list request is
\* answered before the next request is taken.
NextList ==
    \/ list.status = 0 /\ create_vector_store
    \/ list.status = 0 /\ list_vector_stores
    \/ list_return
    \/ list.status = 0 /\ walk_first
    \/ list.status = 0 /\ walk_next
    \/ list.status = 0 /\ walk_end

SpecList == Init /\ [][NextList]_vars

(* ------------------------------------------------------- ingestion claims *)
\* No insert request is in flight.
Quiescent == \A p \in Workers : w[p].pc = "idle"

RowsOf(id) == { r \in BagToSet(embeddings) : r.vector_store_id = id }

\* The number of embedding rows stored for store id.
RecordsOf(id) == Copies(RowsOf(id), embeddings)

RECURSIVE BytesIn(_)
BytesIn(S) ==
    IF S = {} THEN 0
    ELSE LET r == CHOOSE x \in S : TRUE
         IN CopiesIn(r, embeddings) * ByteLength(r.content) + BytesIn(S \ {r})

\* C1: once its insert requests are answered, a store's file_counts.total and
\* file_counts.completed both equal the number of records inserted into it.
C1_CountsEqualInserted ==
    Quiescent =>
        \A i \in DOMAIN vector_stores :
            /\ vector_stores[i].file_counts.total = RecordsOf(vector_stores[i].id)
            /\ vector_stores[i].file_counts.completed = RecordsOf(vector_stores[i].id)

\* C2: after sequential inserts into a store created with usage_bytes 0, its
\* usage_bytes is the sum of the byte lengths of the inserted contents.
C2_UsageIsByteSum ==
    Quiescent =>
        \A i \in DOMAIN vector_stores :
            vector_stores[i].usage_bytes = BytesIn(RowsOf(vector_stores[i].id))

\* C3: when the concurrent insert requests have all run to completion, no
\* counter update is lost: total, completed and usage_bytes are the initial 0
\* plus the contributions of every request that reached its counter update.
C3_NoLostUpdate ==
    Quiescent =>
        \A i \in DOMAIN vector_stores :
            /\ vector_stores[i].file_counts.total = ingested[vector_stores[i].id].count
            /\ vector_stores[i].file_counts.completed = ingested[vector_stores[i].id].count
            /\ vector_stores[i].usage_bytes = ingested[vector_stores[i].id].length

\* C9: the step that checks a batch request with an empty list for an
\* existing store answers 400 and ends the request, and writes no embedding
\* row and changes no store row (file_counts, usage_bytes, last_active_at).
C9_EmptyBatchRejected ==
    [][\A p \in Workers :
          ( /\ w[p].pc = "check"
            /\ w[p].req.kind = "batch"
            /\ w[p].req.embeddings = <<>>
            /\ SelectStore(vector_stores, w[p].req.id) # {}
            /\ w'[p] # w[p] )
          => ( /\ w'[p].pc = "idle"
               /\ w'[p].status = 400
               /\ embeddings' = embeddings
               /\ vector_stores' = vector_stores )]_vars

\* An empty batch was answered 400 while the tables hold stores and rows.
C9_Witness ==
    /\ \E p \in Workers : w[p].pc = "idle" /\ w[p].status = 400
    /\ embeddings # EmptyBag

\* C13: a single-record request whose client-supplied vector has another
\* length than the configured dimensionality is rejected before anything is
\* stored: no such request gets past its INSERT to the counters UPDATE, and
\* no stored record has a vector of another length.
C13_WrongLengthRejected ==
    /\ \A p \in Workers :
          (w[p].pc = "update" /\ w[p].req.kind = "single")
              => Len(w[p].req.embeddings[1].embedding) = Dimensions
    /\ \A r \in BagToSet(embeddings) : Len(r.embedding) = Dimensions

\* C14: whatever the interleaving of insert requests and whichever
\* statement fails, no store's file_counts.total exceeds the number of
\* embedding rows stored for it; and a request whose step at the counters
\* UPDATE leaves the store rows as they were ends there answered 500, with
\* its rows still stored (no rollback, no retry).
C14_TotalNeverExceedsRecords ==
    /\ [](\A i \in DOMAIN vector_stores :
            vector_stores[i].file_counts.total <= RecordsOf(vector_stores[i].id))
    /\ [][\A p \in Workers :
            ( /\ w[p].pc = "update"
              /\ w'[p] # w[p]
              /\ vector_stores' = vector_stores )
            => ( /\ w'[p].pc = "idle"
                 /\ w'[p].status = 500
                 /\ embeddings' = embeddings )]_vars

\* Two requests for one store interleave: one has ended with 500 after its
\* row was stored, the other has stored its row and is about to update the
\* counters, which still read 0.
C14_Witness ==
    \E p, q \in Workers, i \in DOMAIN vector_stores :
        /\ w[p].pc = "idle" /\ w[p].status = 500
        /\ w[q].pc = "update" /\ w[q].req.id = vector_stores[i].id
        /\ RecordsOf(vector_stores[i].id) = 2
        /\ vector_stores[i].file_counts.total = 0

(* ---------------------------------------------------------- search claims *)
\* The limit a request asks for, an absent one read as the default.
RequestedLimit(opt) == IF opt = None THEN DefaultLimit ELSE Value(opt)

\* C4: a search of an existing store whose provider vector has the configured
\* dimensionality and whose query executed is answered 200 with one result
\* per row the query returned.
C4_SearchSucceeds ==
    (search.found /\ search.query_ok) =>
        (search.status = 200 /\ Len(search.data) = Len(search.results))

\* C5: a search of a store id that does not exist is answered 404, without a
\* call of the embedding provider and without a similarity query.
C5_UnknownStoreIs404 ==
    (search.status # 0 /\ ~search.found) =>
        (search.status = 404 /\ search.embed_calls = 0 /\ search.queries = 0)

\* A search of an unknown store id was answered while other stores exist.
C5_Witness ==
    /\ search.status = 404
    /\ SelectStore(vector_stores, search.id) = {}
    /\ vector_stores # <<>>
    /\ embeddings # EmptyBag

\* C6: the similarity query of a search never returns more rows than
\* min(requested limit, 100), an absent limit read as 20.
C6_AtMostRequested ==
    search.query_ok =>
        Len(search.results) <= Min(RequestedLimit(search.limit), MaxLimit)

\* C10: every row a search returns belongs to the searched store and, for
\* every filter, has a metadata value at the filter's key whose text equals
\* the text of the filter's value.
C10_FiltersAllHold ==
    \A i \in DOMAIN search.results :
        /\ search.results[i].vector_store_id = search.id
        /\ \A j \in DOMAIN search.filters :
              SqlEq(JsonGetText(search.results[i].metadata, search.filters[j].key),
                    {PyStr(search.filters[j].value)})

\* A search with two filters returned a row and left out a row of the same
\* store (one that fails a filter).
C10_Witness ==
    /\ Len(search.filters) = 2
    /\ search.results # <<>>
    /\ \E r \in RowsOf(search.id) : \A i \in DOMAIN search.results : search.results[i] # r

\* C11: the results of a search are sorted by non-increasing similarity
\* score: the rows come from the query in ascending distance, and of any two
\* consecutive rows the earlier one's score is at least the later one's.
C11_ScoresNonIncreasing ==
    search.query_ok =>
        \A i \in 1..(Len(search.distances) - 1) :
            /\ search.distances[i] <= search.distances[i + 1]
            /\ SimilarityScore(search.distances[i]) >= SimilarityScore(search.distances[i + 1])

\* A search returned two rows at different distances from the query vector.
C11_Witness ==
    /\ search.query_ok
    /\ \E i \in 1..(Len(search.distances) - 1) :
          search.distances[i] < search.distances[i + 1]

\* C12: every similarity score a search computes lies in [0, 1] (0..2 in
\* halves), and a row whose vector is the query vector, at distance 0, gets
\* score 1.
C12_ScoreInUnitInterval ==
    search.query_ok =>
        \A i \in DOMAIN search.results :
            /\ SimilarityScore(search.distances[i]) \in 0..2
            /\ search.results[i].embedding = search.query_embedding
                  => /\ search.distances[i] = 0
                     /\ SimilarityScore(search.distances[i]) = 2

\* A search returned a row whose vector is the query vector and a row whose
\* vector is opposite to it, the two ends of the distance range.
C12_Witness ==
    /\ search.query_ok
    /\ \E i \in DOMAIN search.results :
          search.results[i].embedding = search.query_embedding
    /\ \E i \in DOMAIN search.distances : search.distances[i] = 2

(* ------------------------------------------------------------ list claims *)
\* C7: a list page holds at most min(requested limit, 100) stores, the limit
\* clamped to 1..100 and an absent one read as 20, and has_more is true
\* exactly when more stores matching the cursor conditions exist than the
\* page holds.
C7_PageAndHasMore ==
    list.status = 200 =>
        /\ Len(list.data) <= Max(1, Min(RequestedLimit(list.limit), MaxLimit))
        /\ list.has_more <=>
              Cardinality(ListMatching(vector_stores, list.after, list.before)) > Len(list.data)

\* Store ids ascend exactly as creation times do.
IdOrderIsCreationOrder ==
    \A i, j \in DOMAIN vector_stores :
        (vector_stores[i].created_at < vector_stores[j].created_at)
            <=> (vector_stores[i].id < vector_stores[j].id)

\* C8: when id order is creation order, a client that follows the cursor to
\* the end (no store created meanwhile) has seen every store exactly once,
\* newest first.
C8_WalkSeesAll ==
    (walk.state = "done" /\ walk.stores = Len(vector_stores) /\ IdOrderIsCreationOrder) =>
        walk.seen = [i \in 1..Len(vector_stores) |->
                        OrderDesc(ListMatching(vector_stores, NoId, NoId))[i].id]

====
